---------------------------- MODULE Spec2Model ----------------------------
(***************************************************************************)
(* A model of tools/binary_size/map2size.py: main(), Analyze() and the     *)
(* passes they run over a SizeInfo's symbols.                              *)
(*                                                                         *)
(* Python strings are TLA+ strings; indices are 0-based as in the source   *)
(* (Slice(s, a, b) is s[a:b]).  A failed assert or an uncaught exception   *)
(* ends the run in pc = "abort" with the exception recorded in error.      *)
(***************************************************************************)
EXTENDS Integers, Sequences, FiniteSets, TLC

VARIABLES
    env,            \* what the run reads from outside: argv, files, tools
    run,            \* which invocation of main() this is (1 = the first)
    pc,             \* position of main()/Analyze()
    error,          \* the exception that ended the run, "" if none
    symbols,        \* size_info.symbols
    section_sizes,  \* size_info.section_sizes
    metadata,       \* main's |metadata| (None or the dict)
    map_file_path,  \* main's local of that name (Unbound until assigned)
    i,              \* _RemoveDuplicatesAndCalculatePadding: loop index
    seen_sections,  \* _RemoveDuplicatesAndCalculatePadding: seen_sections
    to_remove,      \* _RemoveDuplicatesAndCalculatePadding: to_remove
    lookups,        \* arguments FindSourceForPath has been called with
    snapshot,       \* the file SaveSizeInfo wrote (None if none)
    info_metadata,  \* size_info.metadata
    hist            \* history: symbols at entry/exit of the passes

vars == <<env, run, pc, error, symbols, section_sizes, metadata,
          map_file_path, i, seen_sections, to_remove, lookups, snapshot,
          info_metadata, hist>>

-----------------------------------------------------------------------------
(* Bounds of the model *)

MaxSyms == 3
MaxNameSyms == 1
MaxPathSyms == 2
MaxRuns == 2

-----------------------------------------------------------------------------
(* Python string primitives *)

Min(a, b) == IF a < b THEN a ELSE b

Max(a, b) == IF a > b THEN a ELSE b

\* s[a:b] for 0 <= a
Slice(s, a, b) == SubSeq(s, a + 1, Min(b, Len(s)))

\* s[a:]
SliceFrom(s, a) == SubSeq(s, a + 1, Len(s))

StartsWith(s, p) == Len(s) >= Len(p) /\ SubSeq(s, 1, Len(p)) = p

EndsWith(s, p) == Len(s) >= Len(p) /\ SubSeq(s, Len(s) - Len(p) + 1, Len(s)) = p

\* s.find(sub, start, end): the lowest index in s[start:end] where sub lies
\* wholly inside the slice, -1 if there is none
Find(s, sub, start, end) ==
    LET hi == Min(end, Len(s))
        at == {k \in start..(hi - Len(sub)) : SubSeq(s, k + 1, k + Len(sub)) = sub}
    IN  IF at = {} THEN -1
        ELSE CHOOSE k \in at : \A m \in at : k <= m

\* s.rfind(sub)
RFind(s, sub) ==
    LET at == {k \in 0..(Len(s) - Len(sub)) : SubSeq(s, k + 1, k + Len(sub)) = sub}
    IN  IF at = {} THEN -1
        ELSE CHOOSE k \in at : \A m \in at : k >= m

Contains(s, sub) == Find(s, sub, 0, Len(s)) # -1

RECURSIVE Replace(_, _, _)
\* s.replace(old, new)
Replace(s, old, new) ==
    LET idx == Find(s, old, 0, Len(s))
    IN  IF idx = -1 THEN s
        ELSE Slice(s, 0, idx) \o new
             \o Replace(SliceFrom(s, idx + Len(old)), old, new)

\* re.sub(r'\(.*\)', '', s): '.*' is greedy, so the one match runs from the
\* first '(' that has a ')' after it to the last ')'
ReSubParens(s) ==
    LET open == Find(s, "(", 0, Len(s))
        close == RFind(s, ")")
    IN  IF open # -1 /\ close > open
        THEN Slice(s, 0, open) \o SliceFrom(s, close + 1)
        ELSE s

\* os.path.join(a, b)
PathJoin(a, b) ==
    IF StartsWith(b, "/") THEN b
    ELSE IF a = "" \/ EndsWith(a, "/") THEN a \o b
    ELSE a \o "/" \o b

-----------------------------------------------------------------------------
(* models.Symbol *)

Sym(name, section_name, section, address, size, object_path, source_path) ==
    [name |-> name, full_name |-> "", is_anonymous |-> FALSE,
     section_name |-> section_name, section |-> section,
     address |-> address, size |-> size, padding |-> 0,
     object_path |-> object_path, source_path |-> source_path]

\* Symbol.end_address
end_address(symbol) == symbol.address + symbol.size

\* Symbol.size_without_padding
size_without_padding(symbol) == symbol.size - symbol.padding

-----------------------------------------------------------------------------
(* function_signature.Parse *)

CharAt(s, k) == SubSeq(s, k + 1, k + 1)

RECURSIVE MatchOpen(_, _, _)
\* the index of the '(' that balances a ')' met just after index k,
\* scanning towards the start; depth counts the ')' still open
MatchOpen(s, k, depth) ==
    IF k < 0 THEN -1
    ELSE IF CharAt(s, k) = ")" THEN MatchOpen(s, k - 1, depth + 1)
    ELSE IF CharAt(s, k) = "(" THEN
        (IF depth = 1 THEN k ELSE MatchOpen(s, k - 1, depth - 1))
    ELSE MatchOpen(s, k - 1, depth)

RECURSIVE ReturnSpace(_, _, _)
\* the index of the last ' ' before index k that lies outside every bracket
\* pair: it ends the return type
ReturnSpace(s, k, depth) ==
    IF k < 0 THEN -1
    ELSE IF CharAt(s, k) \in {")", ">"} THEN ReturnSpace(s, k - 1, depth + 1)
    ELSE IF CharAt(s, k) \in {"(", "<"} THEN ReturnSpace(s, k - 1, depth - 1)
    ELSE IF CharAt(s, k) = " " /\ depth = 0 THEN k
    ELSE ReturnSpace(s, k - 1, depth)

\* Parse(name) -> (name without return type, the same without parameters)
Parse(name) ==
    LET right == RFind(name, ")")
        left == IF right = -1 THEN -1 ELSE MatchOpen(name, right - 1, 1)
        space_idx == ReturnSpace(name, left - 1, 0)
    IN  IF left > 0
        THEN <<SliceFrom(name, space_idx + 1),
               Slice(name, space_idx + 1, left) \o SliceFrom(name, right + 1)>>
        ELSE <<name, name>>

-----------------------------------------------------------------------------
(* _NormalizeNames *)

ANON == "(anonymous namespace)::"

\* lines 69-73: "<X> for <Y>" -> "<Y> [<X>]"
MoveForPrefix(name) ==
    LET idx == Find(name, " for ", 0, 30)
    IN  IF idx # -1
        THEN SliceFrom(name, idx + 5) \o " [" \o Slice(name, 0, idx) \o "]"
        ELSE name

\* lines 75-79: "<X> to <Y>" -> "<Y> [<X>]"
MoveToPrefix(name) ==
    LET idx == Find(name, " to ", 0, 30)
    IN  IF idx # -1
        THEN SliceFrom(name, idx + 4) \o " [" \o Slice(name, 0, idx) \o "]"
        ELSE name

\* lines 81-83
ParseSignature(symbol) ==
    IF symbol.section = "t"
    THEN [symbol EXCEPT !.full_name = Parse(symbol.name)[1],
                        !.name = Parse(symbol.name)[2]]
    ELSE symbol

\* lines 85-91
RemoveAnonymous(symbol) ==
    LET non_anonymous == Replace(symbol.name, ANON, "")
    IN  IF symbol.name # non_anonymous
        THEN [symbol EXCEPT !.is_anonymous = TRUE,
                            !.name = non_anonymous,
                            !.full_name = Replace(symbol.full_name, ANON, "")]
        ELSE symbol

\* lines 93-97
StripDataParens(symbol) ==
    IF symbol.section # "t" /\ Contains(symbol.name, "(")
    THEN [symbol EXCEPT !.full_name = symbol.name,
                        !.name = ReSubParens(symbol.name)]
    ELSE symbol

\* lines 99-101
ClearSameFullName(symbol) ==
    IF symbol.full_name = symbol.name
    THEN [symbol EXCEPT !.full_name = ""]
    ELSE symbol

\* faulty variant of NormalizeName: '*' placeholders are not passed over
NormalizeName_NoSkip(symbol) ==
    LET s1 == [symbol EXCEPT !.name = MoveForPrefix(symbol.name)]
        s2 == [s1 EXCEPT !.name = MoveToPrefix(s1.name)]
    IN  ClearSameFullName(StripDataParens(RemoveAnonymous(ParseSignature(s2))))

\* the body of the loop, lines 63-101, for one symbol
NormalizeName(symbol) ==
    IF StartsWith(symbol.name, "*") THEN symbol
    ELSE LET s1 == [symbol EXCEPT !.name = MoveForPrefix(symbol.name)]
             s2 == [s1 EXCEPT !.name = MoveToPrefix(s1.name)]
         IN  ClearSameFullName(StripDataParens(RemoveAnonymous(ParseSignature(s2))))

_NormalizeNames(symbol_group) ==
    [k \in DOMAIN symbol_group |-> NormalizeName(symbol_group[k])]

-----------------------------------------------------------------------------
(* _UnmangleRemainingSymbols *)

Range(f) == {f[k] : k \in DOMAIN f}

RECURSIVE Ascending(_)
\* the numbers of S in ascending order: the order a list comprehension
\* over the group keeps
Ascending(S) ==
    IF S = {} THEN <<>>
    ELSE LET least == CHOOSE k \in S : \A m \in S : k <= m
         IN  <<least>> \o Ascending(S \ {least})

IsMangled(symbol) == StartsWith(symbol.name, "_Z")

\* line 39
ToProcess(symbol_group) ==
    Ascending({k \in DOMAIN symbol_group : IsMangled(symbol_group[k])})

\* what c++filt prints for one name
CxxFilt(name) == SliceFrom(name, 2) \o "()"

\* proc.communicate(...)[0].splitlines(): one line per name, cut short or
\* overlong by the tool's lines_delta
DemanglerLines(symbol_group, tool) ==
    LET to_process == ToProcess(symbol_group)
        n == Max(0, Len(to_process) + tool.lines_delta)
    IN  [k \in 1..n |-> IF k <= Len(to_process)
                        THEN CxxFilt(symbol_group[to_process[k]].name)
                        ELSE "extra"]

\* line 47
ReturncodeAssertion(tool) == tool.returncode = 0

\* lines 49-50, as far as the loop gets: to_process[i] exists for the first
\* Len(to_process) lines only
OverwriteNames(symbol_group, lines) ==
    LET to_process == ToProcess(symbol_group)
    IN  [k \in DOMAIN symbol_group |->
            IF \E j \in 1..Min(Len(lines), Len(to_process)) : to_process[j] = k
            THEN LET j == CHOOSE j \in 1..Len(to_process) : to_process[j] = k
                 IN  [symbol_group[k] EXCEPT !.name = lines[j]]
            ELSE symbol_group[k]]

\* line 50 raises IndexError at the first line past to_process
OverwriteRaises(symbol_group, lines) == Len(lines) > Len(ToProcess(symbol_group))

-----------------------------------------------------------------------------
(* _NormalizeObjectPaths, _NormalizeSourcePath, _ExtractSourcePaths *)

\* lines 109-119 for one path; line 118 raises ValueError without a '('
ObjectPathRaises(object_path) ==
    LET path == IF StartsWith(object_path, "obj/") THEN SliceFrom(object_path, 4)
                ELSE IF StartsWith(object_path, "../../") THEN SliceFrom(object_path, 6)
                ELSE object_path
    IN  EndsWith(path, ")") /\ ~Contains(path, "(")

NormalizeObjectPath(object_path) ==
    LET path == IF StartsWith(object_path, "obj/") THEN SliceFrom(object_path, 4)
                ELSE IF StartsWith(object_path, "../../") THEN SliceFrom(object_path, 6)
                ELSE object_path
        start_idx == Find(path, "(", 0, Len(path))
    IN  IF EndsWith(path, ")")
        THEN PathJoin(Slice(path, 0, start_idx), Slice(path, start_idx + 1, Len(path) - 1))
        ELSE path

_NormalizeObjectPaths(symbol_group) ==
    [k \in DOMAIN symbol_group |->
        IF \E j \in 1..k : ObjectPathRaises(symbol_group[j].object_path)
        THEN symbol_group[k]
        ELSE [symbol_group[k] EXCEPT
                 !.object_path = NormalizeObjectPath(symbol_group[k].object_path)]]

_NormalizeSourcePath(path) ==
    IF StartsWith(path, "gen/") THEN SliceFrom(path, 4)
    ELSE IF StartsWith(path, "../../") THEN SliceFrom(path, 6)
    ELSE path

\* ninja_parser.SourceFileMapper.FindSourceForPath; "" stands for None
FindSourceForPath(ninja, object_path) ==
    IF object_path \in DOMAIN ninja THEN ninja[object_path] ELSE ""

\* line 143: the symbols the loop passes over
IsSkipped(symbol) == symbol.source_path # "" \/ symbol.object_path = ""

\* line 146
IsPrebuilt(object_path) == StartsWith(object_path, "..")

\* faulty variant of LookupKey: the path is canonicalized before the lookup
LookupKey_Canonical(symbol) == NormalizeObjectPath(symbol.object_path)

\* the path line 147 hands to the mapper
LookupKey(symbol) == symbol.object_path

IsLookedUp(symbol) == ~IsSkipped(symbol) /\ ~IsPrebuilt(symbol.object_path)

\* lines 141-152 for one symbol
ExtractSourcePath(symbol, ninja) ==
    LET source_path == FindSourceForPath(ninja, LookupKey(symbol))
    IN  IF IsLookedUp(symbol) /\ source_path # ""
        THEN [symbol EXCEPT !.source_path = _NormalizeSourcePath(source_path)]
        ELSE symbol

\* the value _ExtractSourcePaths returns
AllFound(symbol_group, ninja) ==
    \A k \in DOMAIN symbol_group :
        IsLookedUp(symbol_group[k])
            => FindSourceForPath(ninja, LookupKey(symbol_group[k])) # ""

\* the calls of FindSourceForPath the loop makes, in order
LookupCalls(symbol_group) ==
    LET idx == Ascending({k \in DOMAIN symbol_group : IsLookedUp(symbol_group[k])})
    IN  [k \in DOMAIN idx |-> LookupKey(symbol_group[idx[k]])]

\* faulty variant of AllFoundAssertion: a partial resolution only warns
AllFoundAssertion_Off(all_found) == TRUE

\* line 246
AllFoundAssertion(all_found) == all_found

-----------------------------------------------------------------------------
(* _RemoveDuplicatesAndCalculatePadding: the loop body for one pair *)

\* line 167
SectionSeen(section_name, seen) == section_name \in Range(seen)

\* faulty variant of IsFold: symbols at one address are never folded
IsFold_Never(prev_symbol, symbol) == FALSE

\* lines 174-175
IsFold(prev_symbol, symbol) ==
    LET prev_is_padding_only == size_without_padding(prev_symbol) = 0
    IN  symbol.address = prev_symbol.address /\ ~prev_is_padding_only

\* line 176
FoldSize(prev_symbol, symbol) == Max(prev_symbol.size, symbol.size)

\* line 181
Padding(prev_symbol, symbol) == symbol.address - end_address(prev_symbol)

\* faulty variant of IsLargePadding: the thresholds are exclusive
IsLargePadding_Exclusive(symbol, padding) ==
    /\ ~StartsWith(symbol.name, "*")
    /\ \/ Contains("rd", symbol.section) /\ padding > 256
       \/ Contains("t", symbol.section) /\ padding > 64

\* lines 186-188; |x in 'rd'| is substring containment
IsLargePadding(symbol, padding) ==
    /\ ~StartsWith(symbol.name, "*")
    /\ \/ Contains("rd", symbol.section) /\ padding >= 256
       \/ Contains("t", symbol.section) /\ padding >= 64

\* faulty variant of AttributePadding: the gap is added to the size only
AttributePadding_SizeOnly(symbol, padding) ==
    [symbol EXCEPT !.size = symbol.size + padding]

\* lines 198-199
AttributePadding(symbol, padding) ==
    [symbol EXCEPT !.padding = padding, !.size = symbol.size + padding]

\* faulty variant of SizeAssertion: the check is gone
SizeAssertion_Off(symbol) == TRUE

\* line 200
SizeAssertion(symbol) == symbol.size >= 0

\* line 206, symbol_group -= models.SymbolGroup(to_remove)
RemoveSymbols(symbol_group, removed) ==
    LET keep == Ascending(DOMAIN symbol_group \ Range(removed))
    IN  [k \in DOMAIN keep |-> symbol_group[keep[k]]]

-----------------------------------------------------------------------------
(* _DetectGitRevision, BuildIdFromElf, _ParseGnArgs, the section check *)

\* Python's None where the other values are records
None == [none |-> TRUE]

\* None as the git revision
NoRevision == "<None>"

\* a local that no assignment has bound yet
Unbound == "<unbound>"

RECURSIVE RStrip(_)
\* str.rstrip()
RStrip(s) ==
    IF s # "" /\ SubSeq(s, Len(s), Len(s)) \in {" ", "\n", "\t"}
    THEN RStrip(SubSeq(s, 1, Len(s) - 1))
    ELSE s

\* faulty variant of _DetectGitRevision: the failed query's empty output is
\* returned as the revision
_DetectGitRevision_NoExcept(git_stdout) == RStrip(git_stdout)

\* lines 262-269; git prints "" when check_output raises
_DetectGitRevision(git_stdout) ==
    IF git_stdout # "" THEN RStrip(git_stdout) ELSE NoRevision

\* line 275-276: the assertion that readelf printed a build id
BuildIdAssertion(build_id) == build_id # ""

\* os.path.relpath(path, directory) for a directory one level deep
RelPath(path, directory) ==
    IF StartsWith(path, directory \o "/")
    THEN SliceFrom(path, Len(directory) + 1)
    ELSE "../" \o path

RECURSIVE Strip(_)
\* str.strip()
Strip(s) ==
    IF s # "" /\ CharAt(s, 0) \in {" ", "\n", "\t"} THEN Strip(SliceFrom(s, 1))
    ELSE IF s # "" /\ CharAt(s, Len(s) - 1) \in {" ", "\n", "\t"}
         THEN Strip(Slice(s, 0, Len(s) - 1))
    ELSE s

\* l.split('#')[0]
BeforeHash(l) ==
    LET idx == Find(l, "#", 0, Len(l))
    IN  IF idx = -1 THEN l ELSE Slice(l, 0, idx)

\* len(x.split('=')) = 2: exactly one '='
IsKeyValue(x) ==
    LET idx == Find(x, "=", 0, Len(x))
    IN  idx # -1 /\ idx = RFind(x, "=")

RECURSIVE GnDict(_, _)
\* lines 293-300: the dict |args| after the lines k..Len(lines); a later
\* line overrides an earlier one with the same key
GnDict(lines, dict) ==
    IF lines = <<>> THEN dict
    ELSE LET x == BeforeHash(Head(lines))
             idx == Find(x, "=", 0, Len(x))
             key == Strip(Slice(x, 0, idx))
             value == Strip(SliceFrom(x, idx + 1))
         IN  IF ~IsKeyValue(x) THEN GnDict(Tail(lines), dict)
             ELSE GnDict(Tail(lines),
                         [k \in DOMAIN dict \cup {key} |->
                             IF k = key THEN value ELSE dict[k]])

\* line 301: the "key=value" strings of the dict (their sorted order is a
\* function of this set)
_ParseGnArgs(lines) ==
    LET dict == GnDict(lines, [k \in {} |-> ""])
    IN  {k \o "=" \o dict[k] : k \in DOMAIN dict}

\* faulty variant of SectionSizesAssertion: only the first entry is compared
SectionSizesAssertion_First(elf_section_sizes, sizes) ==
    \A k \in DOMAIN elf_section_sizes :
        k = ".data" => k \in DOMAIN sizes /\ elf_section_sizes[k] = sizes[k]

\* faulty variant of SectionSizesAssertion: an ELF section the map does not
\* have is passed over
SectionSizesAssertion_SkipMissing(elf_section_sizes, sizes) ==
    \A k \in DOMAIN elf_section_sizes :
        k \in DOMAIN sizes => elf_section_sizes[k] = sizes[k]

\* lines 358-360: v == size_info.section_sizes.get(k) for every ELF section
SectionSizesAssertion(elf_section_sizes, sizes) ==
    \A k \in DOMAIN elf_section_sizes :
        k \in DOMAIN sizes /\ elf_section_sizes[k] = sizes[k]

-----------------------------------------------------------------------------
(* file_format.SaveSizeInfo / LoadSizeInfo: the snapshot keeps the raw     *)
(* fields (the qualified name, address, size before padding, section,     *)
(* paths) with the anonymous flag; padding and the display name are        *)
(* derived again on load.                                                  *)

StoredSymbol(symbol) ==
    [symbol EXCEPT !.name = IF symbol.full_name # "" THEN symbol.full_name
                            ELSE symbol.name,
                   !.full_name = "",
                   !.size = size_without_padding(symbol),
                   !.padding = 0]

SaveSizeInfo(path, sizes, group, meta) ==
    [path |-> path,
     section_sizes |-> sizes,
     symbols |-> [k \in DOMAIN group |-> StoredSymbol(group[k])],
     metadata |-> meta]

-----------------------------------------------------------------------------
(* What a run reads: the command lines of the invocations, the files and   *)
(* the answers of the external tools                                       *)

Argv(elf_file, map_file, output_file) ==
    [elf_file |-> elf_file, map_file |-> map_file, output_file |-> output_file]

OutputFile == "out/o.size"

\* main(argv) on a fresh binary, its map found beside it
FreshArgv == Argv("out/lib.so", "", OutputFile)

\* the invocations that read a snapshot written before
ReloadArgvs ==
    {Argv("out/lib.so", OutputFile, OutputFile),
     Argv(OutputFile, OutputFile, OutputFile),
     Argv(OutputFile, "", OutputFile)}

\* a fresh run, then up to n runs on the snapshot
Scripts(n) ==
    UNION {{<<FreshArgv>> \o r : r \in [1..m -> ReloadArgvs]} : m \in 0..n}

Sections ==
    {[name |-> ".text", letter |-> "t"],
     [name |-> ".rodata", letter |-> "r"],
     [name |-> ".data", letter |-> "d"]}

SizesA == (".text" :> 32) @@ (".data" :> 8)

NinjaRaw ==
    ("obj/a.o" :> "gen/a.cc") @@ ("a.o" :> "../../a.cc")
        @@ ("obj/l.a(b.o)" :> "b.cc")

NinjaCanon == ("a.o" :> "a.cc") @@ ("l.a/b.o" :> "b.cc") @@ ("p.a/b.o" :> "p.cc")

NinjaNone == [k \in {} |-> ""]

BaseEnv ==
    [invocations |-> <<FreshArgv>>,
     files |-> {"out/lib.so.map"},
     output_directory |-> "out",
     parsed_symbols |-> <<>>,
     parsed_section_sizes |-> SizesA,
     elf_section_sizes |-> SizesA,
     git_stdout |-> "4f2a\n",
     build_id |-> "b1d",
     gn_lines |-> <<"is_debug = false\n">>,
     tool |-> [returncode |-> 0, lines_delta |-> 0],
     ninja |-> NinjaRaw]

GeoAddresses == {16, 80, 272}

GeoSizes == {0, 1, 300}

GeoSyms(sec) ==
    {Sym("a", sec.name, sec.letter, address, size, "", "") :
        address \in GeoAddresses, size \in GeoSizes}

\* one section, every layout of addresses and sizes
EnvGeometry ==
    \E sec \in Sections, m \in 0..MaxSyms :
        \E g \in [1..m -> GeoSyms(sec)] :
            env = [BaseEnv EXCEPT !.parsed_symbols = g]

\* a pair whose later symbol is a '*' placeholder
EnvPlaceholder ==
    \E sec \in Sections :
        \E g \in [1..2 -> GeoSyms(sec)] :
            env = [BaseEnv EXCEPT
                      !.parsed_symbols = <<g[1], [g[2] EXCEPT !.name = "** fill"]>>]

\* every order of sections, with and without an address
EnvSections ==
    \E m \in 0..MaxSyms :
        \E g \in [1..m -> {Sym("a", sec.name, sec.letter, address, 1, "", "") :
                             sec \in Sections, address \in {0, 16}}] :
            env = [BaseEnv EXCEPT !.parsed_symbols = g]

LongPrefix == "aaaaaaaaaaaaaaaaaaaaaaaaaaaaaa"

NameSamples ==
    {"a", "** fill", "vtable for Foo", "virtual thunk to Bar",
     "a for b for c", "a for b to c", "a to b for c",
     "(anonymous namespace)::f", "int f(int)", "f(a)::b",
     "f((anonymous namespace)::T)", "int (anonymous namespace)::g(T<a, b>)",
     "* for b", "** to (anonymous namespace)::f(x)",
     LongPrefix \o " for b", "a for " \o LongPrefix \o " for c"}

\* every sample name, as code and as data, alone and reloaded
EnvNames ==
    \E m \in 0..MaxNameSyms, script \in Scripts(MaxRuns - 1) :
        \E g \in [1..m -> {Sym(name, sec.name, sec.letter, 0, 1, "", "") :
                             name \in NameSamples,
                             sec \in {x \in Sections : x.letter \in {"t", "d"}}}] :
            env = [BaseEnv EXCEPT !.parsed_symbols = g, !.invocations = script]

\* every answer of c++filt
EnvDemangler ==
    \E m \in 0..MaxSyms, tool \in [returncode : {0, 1}, lines_delta : {-1, 0, 1}] :
        \E g \in [1..m -> {Sym(name, ".text", "t", 0, 1, "", "") :
                             name \in {"_Zf", "_Zg", "a"}}] :
            env = [BaseEnv EXCEPT !.parsed_symbols = g, !.tool = tool]

ObjectPaths == {"", "obj/a.o", "a.o", "../../p.a(b.o)", "obj/l.a(b.o)"}

\* every object path, resolved already or not, against every lookup table
EnvPaths ==
    \E m \in 0..MaxPathSyms, ninja \in {NinjaRaw, NinjaCanon, NinjaNone} :
        \E g \in [1..m -> {Sym("a", ".text", "t", 0, 1, object_path, source_path) :
                             object_path \in ObjectPaths,
                             source_path \in {"", "x.cc"}}] :
            env = [BaseEnv EXCEPT !.parsed_symbols = g, !.ninja = ninja]

GnFiles ==
    {<<"is_debug = false\n">>,
     <<"a=1 # note\n", "# comment\n", "a = 2\n">>,
     <<"a=1\n", "bogus\n", "b=c=d\n">>}

ElfSectionSizes ==
    {SizesA,
     (".text" :> 33) @@ (".data" :> 8),
     (".text" :> 32),
     SizesA @@ (".bss" :> 4)}

\* every command line and tool answer, one small layout
EnvMain ==
    \E elf_file \in {"out/lib.so", "out/old.size"},
       map_file \in {"", "out/lib.so.map", "out/lib.txt"},
       output_file \in {OutputFile, "out/o.txt"},
       script \in Scripts(MaxRuns - 1),
       files \in {{"out/lib.so.map"}, {"out/lib.so.map.gz"}, {}},
       git_stdout \in {"4f2a\n", ""},
       build_id \in {"b1d", ""},
       gn_lines \in GnFiles,
       elf_section_sizes \in ElfSectionSizes :
        env = [BaseEnv EXCEPT
                  !.parsed_symbols = <<Sym("a", ".text", "t", 16, 1, "obj/a.o", ""),
                                       Sym("b", ".text", "t", 20, 4, "obj/a.o", "")>>,
                  !.invocations = <<Argv(elf_file, map_file, output_file)>>
                                      \o SubSeq(script, 2, Len(script)),
                  !.files = files,
                  !.git_stdout = git_stdout,
                  !.build_id = build_id,
                  !.gn_lines = gn_lines,
                  !.elf_section_sizes = elf_section_sizes]

\* the inputs of a run: one of the families above
Envs ==
    \/ EnvGeometry
    \/ EnvPlaceholder
    \/ EnvSections
    \/ EnvNames
    \/ EnvDemangler
    \/ EnvPaths
    \/ EnvMain

-----------------------------------------------------------------------------
(* main() and Analyze() *)

\* the command line of the current invocation
args == env.invocations[run]

\* history of the current invocation: the symbols Analyze started from, which
\* passes have returned, which of the symbols the reconciler kept; and the
\* symbols every earlier invocation saved
NoHistory == [raw |-> <<>>, reconciled |-> FALSE, kept |-> <<>>,
              to_process |-> -1, unmangled |-> FALSE,
              extracted |-> FALSE, normalized |-> FALSE, results |-> <<>>]

Init ==
    /\ Envs
    /\ run = 1
    /\ pc = "main"
    /\ error = ""
    /\ symbols = <<>>
    /\ section_sizes = [k \in {} |-> 0]
    /\ metadata = None
    /\ info_metadata = None
    /\ map_file_path = Unbound
    /\ i = 0
    /\ seen_sections = <<>>
    /\ to_remove = <<>>
    /\ lookups = <<>>
    /\ snapshot = None
    /\ hist = NoHistory

\* the run ends with an uncaught exception
Raise(exception) ==
    /\ pc' = "abort"
    /\ error' = exception

\* lines 313-329: the output suffix, then map_file_path
Main ==
    /\ pc = "main"
    /\ IF ~EndsWith(args.output_file, ".size")
       THEN Raise("SystemExit: output_file must end with .size")
            /\ UNCHANGED map_file_path
       ELSE IF args.map_file # ""
       THEN map_file_path' = args.map_file /\ pc' = "metadata" /\ UNCHANGED error
       ELSE IF EndsWith(args.elf_file, ".size")
       THEN pc' = "metadata" /\ UNCHANGED <<error, map_file_path>>
       ELSE IF (args.elf_file \o ".map") \in env.files
       THEN map_file_path' = args.elf_file \o ".map"
            /\ pc' = "metadata" /\ UNCHANGED error
       ELSE IF (args.elf_file \o ".map.gz") \in env.files
       THEN map_file_path' = args.elf_file \o ".map.gz"
            /\ pc' = "metadata" /\ UNCHANGED error
       ELSE Raise("SystemExit: Could not find .map(.gz)? file")
            /\ map_file_path' = args.elf_file \o ".map.gz"
    /\ UNCHANGED <<env, run, symbols, section_sizes, metadata, info_metadata,
                   i, seen_sections, to_remove, lookups, snapshot, hist>>

\* line 331
WantsMetadata(argv) == argv.elf_file # "" /\ ~EndsWith(argv.elf_file, ".size")

\* lines 343-350
MetadataDict ==
    [git_revision |-> _DetectGitRevision(env.git_stdout),
     map_filename |-> RelPath(map_file_path, env.output_directory),
     elf_filename |-> RelPath(args.elf_file, env.output_directory),
     elf_build_id |-> env.build_id,
     gn_args |-> _ParseGnArgs(env.gn_lines)]

\* lines 330-350
Metadata ==
    /\ pc = "metadata"
    /\ IF ~WantsMetadata(args)
       THEN pc' = "analyze" /\ UNCHANGED <<error, metadata>>
       ELSE IF ~BuildIdAssertion(env.build_id)
       THEN Raise("AssertionError: Build ID not found") /\ UNCHANGED metadata
       ELSE metadata' = MetadataDict /\ pc' = "analyze" /\ UNCHANGED error
    /\ UNCHANGED <<env, run, symbols, section_sizes, info_metadata,
                   map_file_path, i, seen_sections, to_remove, lookups,
                   snapshot, hist>>

\* Analyze reads a snapshot (line 216)
IsSizePath(path) == EndsWith(path, ".size")

\* line 226
IsMapPath(path) == EndsWith(path, ".map") \/ EndsWith(path, ".map.gz")

\* line 352 and lines 216-218, 226-236: the call of Analyze up to the
\* SizeInfo it works on
AnalyzeLoad ==
    /\ pc = "analyze"
    /\ IF map_file_path = Unbound
       THEN Raise("UnboundLocalError: map_file_path")
            /\ UNCHANGED <<symbols, section_sizes, info_metadata, hist>>
       ELSE IF IsSizePath(map_file_path)
       THEN IF snapshot # None /\ snapshot.path = map_file_path
            THEN /\ symbols' = snapshot.symbols
                 /\ section_sizes' = snapshot.section_sizes
                 /\ info_metadata' = snapshot.metadata
                 /\ hist' = [hist EXCEPT !.raw = snapshot.symbols]
                 /\ pc' = "recon" /\ UNCHANGED error
            ELSE Raise("IOError: no such snapshot")
                 /\ UNCHANGED <<symbols, section_sizes, info_metadata, hist>>
       ELSE IF ~IsMapPath(map_file_path)
       THEN Raise("Exception: Expected input to be a .map or a .size")
            /\ UNCHANGED <<symbols, section_sizes, info_metadata, hist>>
       ELSE /\ symbols' = env.parsed_symbols
            /\ section_sizes' = env.parsed_section_sizes
            /\ info_metadata' = None
            /\ hist' = [hist EXCEPT !.raw = env.parsed_symbols]
            /\ pc' = "recon" /\ UNCHANGED error
    /\ i' = 1
    /\ seen_sections' = <<>>
    /\ to_remove' = <<>>
    /\ UNCHANGED <<env, run, metadata, map_file_path, lookups, snapshot>>

\* lines 164-202: one turn of the loop, on the pair (symbols[i], symbols[i+1]);
\* to_remove is a list (line 162) and a list has no add: line 177 raises
ReconcileStep ==
    /\ pc = "recon"
    /\ i < Len(symbols)
    /\ LET prev_symbol == symbols[i]
           symbol == symbols[i + 1]
           padding == Padding(prev_symbol, symbol)
           padded == AttributePadding(symbol, padding)
       IN  IF prev_symbol.section_name # symbol.section_name
           THEN IF SectionSeen(symbol.section_name, seen_sections)
                THEN Raise("AssertionError: Input symbols must be sorted")
                     /\ UNCHANGED <<symbols, seen_sections, i>>
                ELSE /\ seen_sections' = Append(seen_sections, symbol.section_name)
                     /\ i' = i + 1
                     /\ UNCHANGED <<symbols, pc, error>>
           ELSE IF symbol.address <= 0 \/ prev_symbol.address <= 0
           THEN i' = i + 1 /\ UNCHANGED <<symbols, seen_sections, pc, error>>
           ELSE IF IsFold(prev_symbol, symbol)
           THEN /\ symbols' = [symbols EXCEPT
                                  ![i + 1].size = FoldSize(prev_symbol, symbol)]
                /\ Raise("AttributeError: 'list' object has no attribute 'add'")
                /\ UNCHANGED <<seen_sections, i>>
           ELSE IF IsLargePadding(symbol, padding)
           THEN i' = i + 1 /\ UNCHANGED <<symbols, seen_sections, pc, error>>
           ELSE /\ symbols' = [symbols EXCEPT ![i + 1] = padded]
                /\ IF SizeAssertion(padded)
                   THEN i' = i + 1 /\ UNCHANGED <<pc, error>>
                   ELSE Raise("AssertionError: Symbol has negative size")
                        /\ UNCHANGED i
                /\ UNCHANGED seen_sections
    /\ UNCHANGED <<env, run, section_sizes, metadata, info_metadata,
                   map_file_path, to_remove, lookups, snapshot, hist>>

\* lines 203-206, and the return into Analyze (line 221 or 240)
ReconcileFinish ==
    /\ pc = "recon"
    /\ i >= Len(symbols)
    /\ symbols' = IF to_remove # <<>> THEN RemoveSymbols(symbols, to_remove)
                  ELSE symbols
    /\ pc' = IF IsSizePath(map_file_path) THEN "names" ELSE "unmangle"
    /\ hist' = [hist EXCEPT !.reconciled = TRUE,
                            !.kept = Ascending(DOMAIN symbols \ Range(to_remove))]
    /\ UNCHANGED <<env, run, error, section_sizes, metadata, info_metadata,
                   map_file_path, i, seen_sections, to_remove, lookups,
                   snapshot>>

\* line 242: _UnmangleRemainingSymbols
Unmangle ==
    /\ pc = "unmangle"
    /\ LET lines == DemanglerLines(symbols, env.tool)
       IN  IF ToProcess(symbols) = <<>>
           THEN pc' = "extract" /\ UNCHANGED <<symbols, error>>
           ELSE IF ~ReturncodeAssertion(env.tool)
           THEN Raise("AssertionError: proc.returncode") /\ UNCHANGED symbols
           ELSE /\ symbols' = OverwriteNames(symbols, lines)
                /\ IF OverwriteRaises(symbols, lines)
                   THEN Raise("IndexError: list index out of range")
                   ELSE pc' = "extract" /\ UNCHANGED error
    /\ hist' = [hist EXCEPT !.to_process = Len(ToProcess(symbols)),
                            !.unmangled = (pc' = "extract")]
    /\ UNCHANGED <<env, run, section_sizes, metadata, info_metadata,
                   map_file_path, i, seen_sections, to_remove, lookups, snapshot>>

\* lines 244-248: _ExtractSourcePaths and the assertion on its result
Extract ==
    /\ pc = "extract"
    /\ symbols' = [k \in DOMAIN symbols |-> ExtractSourcePath(symbols[k], env.ninja)]
    /\ lookups' = lookups \o LookupCalls(symbols)
    /\ IF AllFoundAssertion(AllFound(symbols, env.ninja))
       THEN pc' = "names" /\ UNCHANGED error
       ELSE Raise("AssertionError: One or more source file paths could not be found")
    /\ hist' = [hist EXCEPT !.extracted = TRUE]
    /\ UNCHANGED <<env, run, section_sizes, metadata, info_metadata,
                   map_file_path, i, seen_sections, to_remove, snapshot>>

\* line 224 or 251: _NormalizeNames
Names ==
    /\ pc = "names"
    /\ symbols' = _NormalizeNames(symbols)
    /\ pc' = IF IsSizePath(map_file_path) THEN "validate" ELSE "paths"
    /\ hist' = [hist EXCEPT !.normalized = TRUE]
    /\ UNCHANGED <<env, run, error, section_sizes, metadata, info_metadata,
                   map_file_path, i, seen_sections, to_remove, lookups,
                   snapshot>>

\* line 253: _NormalizeObjectPaths
Paths ==
    /\ pc = "paths"
    /\ symbols' = _NormalizeObjectPaths(symbols)
    /\ IF \E k \in DOMAIN symbols : ObjectPathRaises(symbols[k].object_path)
       THEN Raise("ValueError: substring not found")
       ELSE pc' = "validate" /\ UNCHANGED error
    /\ UNCHANGED <<env, run, section_sizes, metadata, info_metadata,
                   map_file_path, i, seen_sections, to_remove, lookups,
                   snapshot, hist>>

\* lines 354-362
Validate ==
    /\ pc = "validate"
    /\ IF metadata = None
       THEN pc' = "save" /\ UNCHANGED <<error, info_metadata>>
       ELSE IF SectionSizesAssertion(env.elf_section_sizes, section_sizes)
       THEN info_metadata' = metadata /\ pc' = "save" /\ UNCHANGED error
       ELSE Raise("AssertionError: ELF file and .map file do not match.")
            /\ UNCHANGED info_metadata
    /\ UNCHANGED <<env, run, symbols, section_sizes, metadata, map_file_path,
                   i, seen_sections, to_remove, lookups, snapshot, hist>>

\* lines 364-368
Save ==
    /\ pc = "save"
    /\ snapshot' = SaveSizeInfo(args.output_file, section_sizes, symbols,
                                info_metadata)
    /\ hist' = [hist EXCEPT !.results = Append(hist.results, symbols)]
    /\ pc' = "done"
    /\ UNCHANGED <<env, run, error, symbols, section_sizes, metadata,
                   info_metadata, map_file_path, i, seen_sections, to_remove,
                   lookups>>

\* the next invocation of the tool: a new process, the snapshot stays on disk
NextInvocation ==
    /\ pc = "done"
    /\ run < Len(env.invocations)
    /\ run' = run + 1
    /\ pc' = "main"
    /\ symbols' = <<>>
    /\ section_sizes' = [k \in {} |-> 0]
    /\ metadata' = None
    /\ info_metadata' = None
    /\ map_file_path' = Unbound
    /\ i' = 0
    /\ seen_sections' = <<>>
    /\ to_remove' = <<>>
    /\ lookups' = <<>>
    /\ hist' = [NoHistory EXCEPT !.results = hist.results]
    /\ UNCHANGED <<env, error, snapshot>>

Next ==
    \/ Main
    \/ Metadata
    \/ AnalyzeLoad
    \/ ReconcileStep
    \/ ReconcileFinish
    \/ Unmangle
    \/ Extract
    \/ Names
    \/ Paths
    \/ Validate
    \/ Save
    \/ NextInvocation

Spec == Init /\ [][Next]_vars

-----------------------------------------------------------------------------
(* Properties *)

\* the run is a fresh-artifact run of Analyze (a .map input)
FreshRun == map_file_path # Unbound /\ IsMapPath(map_file_path)

\* the loop of the reconciler has dealt with the pair (k, k+1): it went past
\* it, or it died on the size assertion right after changing the later symbol
PairProcessed(k) ==
    \/ pc = "recon" /\ i > k
    \/ pc = "abort" /\ i = k
       /\ error = "AssertionError: Symbol has negative size"

\* the pair (k, k+1) of the input is one the reconciler is to fold
FoldCase(group, k) ==
    /\ group[k].section_name = group[k + 1].section_name
    /\ group[k].address = group[k + 1].address
    /\ group[k].address > 0
    /\ group[k].size - group[k].padding # 0

\* the loop of the reconciler died on the pair (k, k+1)
DiedOnPair(k) == pc = "abort" /\ ~hist.reconciled /\ hist.raw # <<>> /\ i = k

\* C1: for every pair of consecutive symbols of one section at one positive
\* address whose earlier symbol has size_without_padding # 0, the reconciler
\* completes, exactly one of the two is left in the group, and its size is
\* the larger of the two input sizes.
C1_FoldKeepsOneWithMaxSize ==
    \A k \in 1..(Len(hist.raw) - 1) :
        FoldCase(hist.raw, k) =>
            /\ ~DiedOnPair(k)
            /\ hist.reconciled =>
                 /\ Cardinality({k, k + 1} \cap Range(hist.kept)) = 1
                 /\ \A j \in DOMAIN hist.kept :
                        hist.kept[j] \in {k, k + 1} /\ j \in DOMAIN symbols =>
                            symbols[j].size = Max(hist.raw[k].size, hist.raw[k + 1].size)

\* C2: once the reconciler has completed on a group whose input sizes are
\* all >= 0, no symbol left in the group has a negative size.
C2_NoNegativeSize ==
    (hist.reconciled /\ \A k \in DOMAIN hist.raw : hist.raw[k].size >= 0)
        => \A k \in DOMAIN symbols : symbols[k].size >= 0

\* an overlap was attributed (negative padding) and the reconciler completed
C2_Witness ==
    /\ hist.reconciled
    /\ \E k \in DOMAIN symbols : symbols[k].padding < 0 /\ symbols[k].size >= 0

\* C3: for a processed pair of one section with positive, distinct addresses
\* whose later symbol is no '*' placeholder, a gap of at least 256 (sections
\* r, d) or 64 (section t) leaves the later symbol's padding at 0 and its
\* size as it was, and a smaller gap becomes its padding and is added to its
\* size.
C3_PaddingThreshold ==
    \A k \in 1..(Len(symbols) - 1) :
        LET prev == symbols[k]
            cur == symbols[k + 1]
            gap == cur.address - (prev.address + prev.size)
            threshold == IF cur.section = "t" THEN 64 ELSE 256
        IN  (/\ PairProcessed(k)
             /\ prev.section_name = cur.section_name
             /\ prev.address > 0 /\ cur.address > 0
             /\ prev.address # cur.address
             /\ ~StartsWith(cur.name, "*")
             /\ cur.section \in {"r", "d", "t"})
            => IF gap >= threshold
               THEN cur.padding = 0 /\ cur.size = hist.raw[k + 1].size
               ELSE cur.padding = gap /\ cur.size = hist.raw[k + 1].size + gap

\* both sides of the boundary in one read-only group: a gap of 255 taken as
\* padding, then a gap of 256 left alone
C3_Witness ==
    /\ pc = "recon" /\ i > 1
    /\ symbols[1].section = "r" /\ symbols[2].section = "r"
    /\ symbols[1].address > 0
    /\ symbols[2].address - (symbols[1].address + symbols[1].size) = 255
    /\ symbols[2].padding = 255
    /\ ~StartsWith(symbols[2].name, "*")


\* some ELF section has another size than the map gives it
SizeMismatch ==
    \E k \in DOMAIN env.elf_section_sizes :
        k \in DOMAIN section_sizes
            /\ env.elf_section_sizes[k] # section_sizes[k]

\* the current invocation has written its snapshot
SnapshotWritten == Len(hist.results) >= run

\* C4: in a run that has assembled metadata and in which an ELF section has
\* a size different from section_sizes of that name, SaveSizeInfo is not
\* reached and the run writes no snapshot.
C4_MismatchWritesNothing ==
    (metadata # None /\ SizeMismatch)
        => pc \notin {"save", "done"} /\ ~SnapshotWritten

\* the check met a mismatch and ended the run
C4_Witness ==
    /\ metadata # None /\ SizeMismatch
    /\ pc = "abort"
    /\ error = "AssertionError: ELF file and .map file do not match."

\* C5: when a fresh run has saved its symbols and the next run analyzes that
\* snapshot, every symbol ends with the padding, name and full_name the
\* fresh run gave it.
C5_ReloadReproduces ==
    (run = 2 /\ pc = "done" /\ IsSizePath(map_file_path))
        => /\ Len(symbols) = Len(hist.results[1])
           /\ \A k \in DOMAIN symbols :
                  /\ symbols[k].padding = hist.results[1][k].padding
                  /\ symbols[k].name = hist.results[1][k].name
                  /\ symbols[k].full_name = hist.results[1][k].full_name

\* C6: once _NormalizeNames has run, running it on its own output changes no
\* symbol's name, full_name or is_anonymous.
C6_NormalizeIdempotent ==
    (hist.normalized /\ pc # "abort")
        => \A k \in DOMAIN symbols :
               LET again == _NormalizeNames(symbols)[k]
               IN  /\ again.name = symbols[k].name
                   /\ again.full_name = symbols[k].full_name
                   /\ again.is_anonymous = symbols[k].is_anonymous

\* at the pair (k, k+1) the section name changes to one met earlier
ReturnsToSection(group, k) ==
    /\ group[k].section_name # group[k + 1].section_name
    /\ \E j \in 1..k : group[j].section_name = group[k + 1].section_name

\* C7: on a group in which the section name changes, at some pair, to a
\* section name that occurred earlier in the group (the first symbol's
\* included), the reconciler does not complete, and if its loop gets to that
\* pair it ends there with the sort-order assertion.
C7_UnsortedDetected ==
    \A k \in 1..(Len(hist.raw) - 1) :
        ReturnsToSection(hist.raw, k) =>
            /\ ~hist.reconciled
            /\ ~(pc = "recon" /\ i > k)
            /\ DiedOnPair(k) => error = "AssertionError: Input symbols must be sorted"

\* C8: with N >= 1 mangled names, when c++filt exits non-zero or prints a
\* number of lines other than N, _UnmangleRemainingSymbols does not return.
C8_DemanglerFailureFatal ==
    (/\ hist.to_process >= 1
     /\ \/ env.tool.returncode # 0
        \/ Len(DemanglerLines(hist.raw, env.tool)) # hist.to_process)
        => ~hist.unmangled

\* the paths of the symbols of group that are looked up when Key(path) is the
\* path the skip of prebuilt archives is decided on and the lookup is made with
CallsWith(group, Key(_)) ==
    LET idx == Ascending({k \in DOMAIN group :
                             /\ group[k].source_path = ""
                             /\ group[k].object_path # ""
                             /\ ~StartsWith(Key(group[k].object_path), "..")})
    IN  [k \in DOMAIN idx |-> Key(group[idx[k]].object_path)]

RawPath(object_path) == object_path

\* C9 as claimed: on a fresh run FindSourceForPath is called with the
\* canonicalized object paths, and prebuilt archives are skipped by the
\* canonicalized path.
C9_LookupCanonical ==
    (FreshRun /\ hist.extracted)
        => lookups = CallsWith(hist.raw, NormalizeObjectPath)

\* C9 as the code has it: on a fresh run FindSourceForPath is called with
\* each object path as the extractor gave it, prebuilt archives are skipped
\* by that raw path, and the paths are canonicalized only afterwards.
C9_LookupRaw ==
    (FreshRun /\ hist.extracted)
        => /\ lookups = CallsWith(hist.raw, RawPath)
           /\ pc \in {"names", "paths"} =>
                  \A k \in DOMAIN symbols :
                      symbols[k].object_path = hist.raw[k].object_path

\* a path that canonicalization changes was looked up as it was, and a
\* prebuilt archive member was passed over
C9_Witness ==
    /\ FreshRun /\ hist.extracted
    /\ \E j \in DOMAIN lookups : lookups[j] = "obj/a.o"
    /\ \E k \in DOMAIN hist.raw :
           /\ hist.raw[k].object_path = "../../p.a(b.o)"
           /\ hist.raw[k].source_path = ""
    /\ \A j \in DOMAIN lookups : ~StartsWith(lookups[j], "..")

\* the symbol is one _ExtractSourcePaths has to resolve
Eligible(symbol) ==
    /\ symbol.source_path = ""
    /\ symbol.object_path # ""
    /\ ~StartsWith(symbol.object_path, "..")

\* the build-dependency lookup has no source for the symbol's object
Unresolvable(symbol) ==
    \/ symbol.object_path \notin DOMAIN env.ninja
    \/ env.ninja[symbol.object_path] = ""

SourceAbort ==
    /\ pc = "abort"
    /\ error = "AssertionError: One or more source file paths could not be found"

\* C10: on a fresh run with a symbol that has to be resolved and cannot be,
\* Analyze does not get past the source extraction and no snapshot is
\* written; and the run ends on the source-path assertion only when there is
\* such a symbol.
C10_PartialResolutionFatal ==
    /\ (FreshRun /\ \E k \in DOMAIN hist.raw :
                       Eligible(hist.raw[k]) /\ Unresolvable(hist.raw[k]))
           => /\ pc \notin {"names", "paths", "validate", "save", "done"}
              /\ ~hist.normalized
              /\ ~SnapshotWritten
    /\ SourceAbort
           => \E k \in DOMAIN hist.raw :
                  Eligible(hist.raw[k]) /\ Unresolvable(hist.raw[k])

\* the run ended on the assertion although one of its two symbols was one
\* the extraction passes over
C10_Witness ==
    /\ SourceAbort
    /\ \E k \in DOMAIN hist.raw : ~Eligible(hist.raw[k])
    /\ \E k \in DOMAIN hist.raw : Eligible(hist.raw[k]) /\ Unresolvable(hist.raw[k])

\* the line of args.gn, its comment stripped, is not blank and does not
\* split into exactly two parts on '='
MalformedGnLine(l) ==
    Strip(BeforeHash(l)) # "" /\ ~IsKeyValue(BeforeHash(l))

\* C11: in a run that assembles metadata from an args.gn with a malformed
\* line, the run ends in the assembly: no metadata record is built, Analyze
\* is not reached and no snapshot is written.
C11_MalformedGnFatal ==
    (/\ WantsMetadata(args)
     /\ BuildIdAssertion(env.build_id)
     /\ \E k \in DOMAIN env.gn_lines : MalformedGnLine(env.gn_lines[k]))
        => /\ metadata = None
           /\ pc \in {"main", "metadata", "abort"}
           /\ ~SnapshotWritten

\* the invocation reads the snapshot a run before it has written, naming it
\* as its input and giving no map file
SnapshotInput ==
    /\ EndsWith(args.elf_file, ".size")
    /\ args.map_file = ""
    /\ EndsWith(args.output_file, ".size")
    /\ snapshot # None
    /\ snapshot.path = args.elf_file

\* C12: a run whose input is a persisted snapshot (the input path ends in
\* '.size', no map file is given) does not end with an exception; when it
\* has ended, the reconciler and the name normalizer have run on the loaded
\* symbols, no other pass and no metadata assembly has, and the result is
\* written.
C12_SnapshotInputRun ==
    (SnapshotInput /\ pc \in {"abort", "done"})
        => /\ pc = "done"
           /\ hist.raw = snapshot.symbols
           /\ hist.reconciled /\ hist.normalized
           /\ ~hist.unmangled /\ ~hist.extracted
           /\ metadata = None
           /\ SnapshotWritten

\* C13: when _NormalizeNames runs, every symbol that is no '*' placeholder
\* and whose name (the whole signature, before the pass) holds the token
\* '(anonymous namespace)::' comes out with the token in neither name nor
\* full_name and with is_anonymous set; a code symbol with the token only
\* among its parameters included.
C13_AnonymousFolded ==
    [][pc = "names" =>
        \A k \in DOMAIN symbols :
            (~StartsWith(symbols[k].name, "*") /\ Contains(symbols[k].name, ANON))
                => /\ ~Contains(symbols'[k].name, ANON)
                   /\ ~Contains(symbols'[k].full_name, ANON)
                   /\ symbols'[k].is_anonymous]_vars

\* the run assembles metadata and the git query fails
RevisionLookupFails ==
    /\ WantsMetadata(args)
    /\ BuildIdAssertion(env.build_id)
    /\ env.git_stdout = ""

\* C14: when the git query fails, the metadata assembly does not end the
\* run: it goes on to Analyze with the revision None and the other fields
\* as with any revision; and the snapshot such a run writes carries that
\* record.
C14_RevisionBestEffort ==
    /\ [][(pc = "metadata" /\ RevisionLookupFails)
             => /\ pc' = "analyze"
                /\ error' = error
                /\ metadata'.git_revision = NoRevision
                /\ metadata'.map_filename = RelPath(map_file_path, env.output_directory)
                /\ metadata'.elf_filename = RelPath(args.elf_file, env.output_directory)
                /\ metadata'.elf_build_id = env.build_id
                /\ metadata'.gn_args = _ParseGnArgs(env.gn_lines)]_vars
    /\ []((RevisionLookupFails /\ pc = "done")
             => /\ snapshot.metadata # None
                /\ snapshot.metadata.git_revision = NoRevision
                /\ snapshot.metadata.elf_build_id = env.build_id)

\* a run whose git query failed has written its snapshot, the revision None
C14_Witness ==
    /\ RevisionLookupFails
    /\ pc = "done"
    /\ snapshot # None
    /\ snapshot.metadata # None
    /\ snapshot.metadata.git_revision = NoRevision
    /\ snapshot.metadata.elf_build_id = "b1d"

\* the place of a section name in the ascending order of the names
SectionOrder == (".data" :> 1) @@ (".rodata" :> 2) @@ (".text" :> 3)

\* the group is sorted ascending by (section_name, address)
SortedGroup(group) ==
    \A k \in 1..(Len(group) - 1) :
        \/ SectionOrder[group[k].section_name] < SectionOrder[group[k + 1].section_name]
        \/ /\ group[k].section_name = group[k + 1].section_name
           /\ group[k].address <= group[k + 1].address

NegativeSizeAbort ==
    pc = "abort" /\ error = "AssertionError: Symbol has negative size"

\* C15: on a group sorted ascending by (section_name, address) whose sizes
\* are all >= 0, the reconciler never ends on the negative-size assertion.
C15_SortedNeverNegative ==
    (/\ SortedGroup(hist.raw)
     /\ \A k \in DOMAIN hist.raw : hist.raw[k].size >= 0)
        => ~NegativeSizeAbort

\* the passes of _NormalizeNames that follow the two prefix rules
AfterPrefixRules(symbol) ==
    ClearSameFullName(StripDataParens(RemoveAnonymous(ParseSignature(symbol))))

\* C16: when _NormalizeNames runs on a symbol (no '*' placeholder) whose name
\* has ' for ' within its first 30 characters, the name is rewritten once,
\* to '<Y> [<X>]', and the ' to ' rule is not applied to the result: the
\* symbol comes out as the later rules leave '<Y> [<X>]'.
C16_PrefixRulesExclusive ==
    [][pc = "names" =>
        \A k \in DOMAIN symbols :
            (/\ ~StartsWith(symbols[k].name, "*")
             /\ Find(symbols[k].name, " for ", 0, 30) # -1)
                => symbols'[k] =
                       AfterPrefixRules([symbols[k] EXCEPT
                                            !.name = MoveForPrefix(symbols[k].name)])]_vars

\* two symbols the reconciler left in the group, the one at j before the
\* one at k, lie in one section at one positive address
SameAddressLeft(j, k) ==
    /\ j < k
    /\ symbols[j].section_name = symbols[k].section_name
    /\ symbols[j].address > 0
    /\ symbols[j].address = symbols[k].address

\* every symbol the reconciler took out of the group was the later symbol
\* of a fold pair of its scan
RemovedWereFolded ==
    \A k \in DOMAIN hist.raw \ Range(hist.kept) :
        k > 1 /\ FoldCase(hist.raw, k - 1)

C18_PlaceholderUntouched ==
    [][pc = "names" =>
        \A k \in DOMAIN symbols :
            StartsWith(symbols[k].name, "*")
                => /\ symbols'[k].name = symbols[k].name
                   /\ symbols'[k].full_name = symbols[k].full_name
                   /\ symbols'[k].is_anonymous = symbols[k].is_anonymous]_vars

\* the pass has run on a code-section placeholder whose name holds ' to ',
\* the anonymous-namespace token and a parameter list
C18_Witness ==
    /\ hist.normalized
    /\ \E k \in DOMAIN symbols :
           /\ symbols[k].name = "** to (anonymous namespace)::f(x)"
           /\ symbols[k].section = "t"
           /\ symbols[k].full_name = ""
           /\ ~symbols[k].is_anonymous

\* the scan leaves the symbol the reconciler kept at k alone: it is the first
\* of its section, or it or the symbol before it has a non-positive address,
\* or the gap before it is at or over the threshold
LeftAlone(k) ==
    LET n == hist.kept[k]
    IN  \/ n = 1
        \/ hist.raw[n - 1].section_name # hist.raw[n].section_name
        \/ hist.raw[n].address <= 0
        \/ hist.raw[n - 1].address <= 0
        \/ /\ k > 1 /\ hist.kept[k - 1] = n - 1
           /\ IsLargePadding(hist.raw[n], Padding(symbols[k - 1], hist.raw[n]))

\* the reconciler has returned and no later pass has run yet
JustReconciled ==
    /\ hist.reconciled
    /\ \/ pc = "unmangle"
       \/ pc = "names" /\ IsSizePath(map_file_path)

\* C19: for every symbol left after the reconciler has completed, size minus
\* padding is the size it had on input and its address and section are the
\* input's; right after the reconciler its name and paths are too; and a
\* symbol the scan leaves alone has the size and the padding of the input.
C19_SizesPreserved ==
    hist.reconciled =>
        /\ Len(symbols) = Len(hist.kept)
        /\ \A k \in DOMAIN symbols :
               LET original == hist.raw[hist.kept[k]]
               IN  /\ symbols[k].size - symbols[k].padding = original.size
                   /\ size_without_padding(symbols[k]) = size_without_padding(original)
                   /\ symbols[k].address = original.address
                   /\ symbols[k].section = original.section
                   /\ symbols[k].section_name = original.section_name
                   /\ JustReconciled =>
                          /\ symbols[k].name = original.name
                          /\ symbols[k].object_path = original.object_path
                          /\ symbols[k].source_path = original.source_path
                   /\ LeftAlone(k) =>
                          /\ symbols[k].size = original.size
                          /\ symbols[k].padding = original.padding

\* the reconciler has completed on three code symbols: the first left alone,
\* the second with a gap of 63 as padding, the third behind a gap at the
\* threshold and left alone
C19_Witness ==
    /\ JustReconciled
    /\ Len(symbols) = 3
    /\ symbols[1].section = "t" /\ symbols[1].address > 0
    /\ symbols[2].padding = 63 /\ symbols[2].size = hist.raw[2].size + 63
    /\ LeftAlone(3) /\ symbols[3].address > 0 /\ symbols[3].padding = 0
    /\ symbols[3].section_name = symbols[2].section_name

\* an ELF section has no entry in section_sizes
ElfOnlySection ==
    \E k \in DOMAIN env.elf_section_sizes : k \notin DOMAIN section_sizes

SectionAbort ==
    pc = "abort" /\ error = "AssertionError: ELF file and .map file do not match."

\* C20: in a run that has assembled metadata and loaded its section_sizes,
\* an ELF section without an entry in section_sizes keeps the run from
\* writing its snapshot; and the run ends on the section assertion only when
\* some ELF section is missing from section_sizes or differs from it, never
\* for a section that section_sizes alone has.
C20_ElfSectionsOnly ==
    /\ (metadata # None /\ hist.raw # <<>> /\ ElfOnlySection)
           => pc \notin {"save", "done"} /\ ~SnapshotWritten
    /\ SectionAbort => (ElfOnlySection \/ SizeMismatch)
    /\ (/\ metadata # None /\ pc = "save"
        /\ \E k \in DOMAIN section_sizes : k \notin DOMAIN env.elf_section_sizes)
           => ~ElfOnlySection /\ ~SizeMismatch

\* the run ended on the assertion for a section only the ELF has, the shared
\* sections agreeing
C20_Witness ==
    /\ SectionAbort
    /\ ElfOnlySection
    /\ ~SizeMismatch
    /\ hist.normalized

=============================================================================
